---- MODULE Spec2Model ----
(***************************************************************************)
(* A model of WebScraperAI (backend.py): the search / scrape / summarize / *)
(* save pipeline and the four containers it keeps in memory.               *)
(*                                                                         *)
(* Strings are run-length encoded: a string is a sequence of runs          *)
(* <<c, n>> (n >= 1 copies of the character c, adjacent runs of different  *)
(* characters), so that the program's own thresholds (50, 5000) are kept.  *)
(* A Python dict is a sequence of [k, v] entries in insertion order.       *)
(***************************************************************************)
EXTENDS Integers, Sequences, FiniteSets, TLC

VARIABLES serpapi_key, hf_api_key, search_results, content, summaries,
          failed_urls, files, last

vars == <<serpapi_key, hf_api_key, search_results, content, summaries,
          failed_urls, files, last>>

(***************************************************************************)
(* Bounds of the model                                                     *)
(***************************************************************************)
MaxBatch == 2      \* longest URL list handed to batch_scrape
MaxCount == 3      \* largest num_results asked of search_web
MaxFailed == 2     \* direct scrape_website calls stop growing failed_urls here

(***************************************************************************)
(* Program constants                                                       *)
(***************************************************************************)
MIN_TEXT_LEN == 50
HF_INPUT_LIMIT == 5000
DEFAULT_MAX_LENGTH == 500
OVERALL_MAX_LENGTH == 1000
NUM_SENTENCES == 5
ALT_NUM_RESULTS == 3

None == [none |-> TRUE]
PyStr(s) == [str |-> s]

Min(a, b) == IF a < b THEN a ELSE b

(***************************************************************************)
(* Strings                                                                 *)
(***************************************************************************)
IsSpace(c) == c \in {" ", "\n"}

RECURSIVE StrLen(_)
StrLen(s) == IF s = <<>> THEN 0 ELSE s[1][2] + StrLen(Tail(s))

\* a + b
Cat(a, b) ==
    IF a = <<>> THEN b
    ELSE IF b = <<>> THEN a
    ELSE IF a[Len(a)][1] = b[1][1]
         THEN SubSeq(a, 1, Len(a) - 1)
                \o <<<<b[1][1], a[Len(a)][2] + b[1][2]>>>> \o Tail(b)
         ELSE a \o b

\* s[:k]
RECURSIVE Take(_, _)
Take(s, k) ==
    IF k <= 0 \/ s = <<>> THEN <<>>
    ELSE IF s[1][2] >= k THEN <<<<s[1][1], k>>>>
    ELSE <<s[1]>> \o Take(Tail(s), k - s[1][2])

RECURSIVE LStrip(_)
LStrip(s) == IF s # <<>> /\ IsSpace(s[1][1]) THEN LStrip(Tail(s)) ELSE s

RECURSIVE RStrip(_)
RStrip(s) ==
    IF s # <<>> /\ IsSpace(s[Len(s)][1]) THEN RStrip(SubSeq(s, 1, Len(s) - 1)) ELSE s

\* s.strip()
Strip(s) == RStrip(LStrip(s))

\* sep.join(parts)
RECURSIVE Join(_, _)
Join(parts, sep) ==
    IF parts = <<>> THEN <<>>
    ELSE IF Len(parts) = 1 THEN parts[1]
    ELSE Cat(Cat(parts[1], sep), Join(Tail(parts), sep))

SPACE == <<<<" ", 1>>>>
NEWLINE == <<<<"\n", 1>>>>

\* nltk's sent_tokenize: a sentence ends at a full stop that is followed by
\* white space; each sentence is returned without the white space around it.
RECURSIVE Tok(_, _, _, _)
Tok(s, i, cur, acc) ==
    IF i > Len(s)
    THEN IF Strip(cur) = <<>> THEN acc ELSE Append(acc, Strip(cur))
    ELSE IF s[i][1] = "." /\ i < Len(s) /\ IsSpace(s[i + 1][1])
         THEN Tok(s, i + 1, <<>>, Append(acc, Strip(Append(cur, s[i]))))
         ELSE Tok(s, i + 1, Append(cur, s[i]), acc)

sent_tokenize(text) == Tok(text, 1, <<>>, <<>>)

(***************************************************************************)
(* Dicts                                                                   *)
(***************************************************************************)
DictKeys(d) == {d[i].k : i \in 1..Len(d)}

DictGet(d, key) == d[CHOOSE i \in 1..Len(d) : d[i].k = key].v

\* d[key] = val: an existing key keeps its place, a new key goes last
DictSet(d, key, val) ==
    IF key \in DictKeys(d)
    THEN [i \in 1..Len(d) |-> IF d[i].k = key THEN [k |-> key, v |-> val] ELSE d[i]]
    ELSE Append(d, [k |-> key, v |-> val])

(***************************************************************************)
(* The environment: URLs, what a download and parse can yield, what the    *)
(* two providers can answer                                                *)
(***************************************************************************)
URLS == {"http://a", "http://b"}

FILENAMES == {"scraper_results.json", "other.json"}

Sentence(c) == <<<<c, 9>>, <<".", 1>>>>

\* exactly 50 characters, one sentence
TextLong == <<<<"a", 49>>, <<".", 1>>>>
\* seven sentences
TextSeven == Join([i \in 1..7 |-> Sentence("b")], SPACE)
\* two sentences, 6003 characters
TextHuge == <<<<"c", 3000>>, <<".", 1>>, <<" ", 1>>, <<"d", 3000>>, <<".", 1>>>>
\* 49 characters
TextShort == <<<<"e", 49>>>>
\* 109 characters, 49 of them inside the white space
TextPadded == <<<<" ", 30>>, <<"e", 49>>, <<"\n", 30>>>>

Page(title, text, date) ==
    [title |-> title, text |-> text, publish_date |-> date,
     authors |-> <<"x">>, top_image |-> "img"]

PageLong == Page(<<<<"t", 5>>>>, TextLong, [iso |-> "2024-01-01 00:00:00"])
PageSeven == Page(<<>>, TextSeven, None)
PagePadded == Page(<<>>, TextPadded, None)
PageShort == Page(<<<<"t", 5>>>>, TextShort, None)
PageEmpty == Page(<<>>, <<>>, None)

\* article.download() or article.parse() raised
ArticleError == [error |-> TRUE]

\* what a download and parse yields in a batch
Outcomes == {PageLong, PageSeven, PagePadded, ArticleError}

\* the same with the border cases of the length test
EdgeOutcomes == Outcomes \cup {PageShort, PageEmpty}

\* what GoogleSearch(params).get_dict() does
SerpResponses ==
    {[kind |-> "raise"], [kind |-> "no_organic"]}
      \cup {[kind |-> "organic", organic_results |-> r] :
              r \in {<<>>,
                     <<[link |-> "http://a"], [link |-> "http://b"]>>,
                     <<[link |-> "http://b"], [link |-> "http://a"],
                       [link |-> "http://a"], [link |-> "http://b"]>>}}

\* what requests.post to the inference API does: a 200 with a synopsis, another
\* status, a 200 whose body is not [{"summary_text": ...}], an exception
HFResponses == {"ok", "non200", "malformed", "raise"}

\* the synopsis the provider returns for a request: some string that the
\* request determines, never the output of the extractive fallback
Synopsis(inputs, max_length) == Cat(<<<<"#", max_length>>>>, inputs)

\* str(article.publish_date)
DateStr(d) == PyStr(d.iso)

(***************************************************************************)
(* scrape_website                                                          *)
(***************************************************************************)
Doc(url, page) ==
    [title |-> page.title,
     text |-> page.text,
     publish_date |-> IF page.publish_date # None THEN DateStr(page.publish_date) ELSE None,
     authors |-> page.authors,
     top_image |-> page.top_image,
     source_url |-> url]

\* the length test without the strip()
Fails_NoStrip(o) ==
    \/ o = ArticleError
    \/ o.text = <<>>
    \/ StrLen(o.text) < MIN_TEXT_LEN

\* the test of line 90, or an exception before it
Fails(o) ==
    \/ o = ArticleError
    \/ o.text = <<>>
    \/ StrLen(Strip(o.text)) < MIN_TEXT_LEN

\* one call on content map c and failed list f
Scrape(c, f, url, o) ==
    IF Fails(o)
    THEN [content |-> c, failed_urls |-> Append(f, url), ret |-> None]
    ELSE [content |-> DictSet(c, url, Doc(url, o)), failed_urls |-> f,
          ret |-> Doc(url, o)]

scrape_website(url, o) ==
    /\ Fails(o) => Len(failed_urls) < MaxFailed
    /\ LET r == Scrape(content, failed_urls, url, o) IN
         /\ content' = r.content
         /\ failed_urls' = r.failed_urls
         /\ last' = [op |-> "scrape_website", url |-> url, outcome |-> o,
                     ret |-> r.ret, raised |-> FALSE]
    /\ UNCHANGED <<serpapi_key, hf_api_key, search_results, summaries, files>>

(***************************************************************************)
(* batch_scrape                                                            *)
(***************************************************************************)
RECURSIVE BatchLoop(_, _, _, _, _, _)
BatchLoop(c, f, results, urls, outs, i) ==
    IF i > Len(urls)
    THEN [content |-> c, failed_urls |-> f, ret |-> results]
    ELSE LET r == Scrape(c, f, urls[i], outs[i]) IN
           BatchLoop(r.content, r.failed_urls,
                     IF r.ret # None THEN Append(results, <<urls[i], r.ret>>)
                                     ELSE results,
                     urls, outs, i + 1)

\* the batch without the reset of line 114
Batch_NoReset(c, f, urls, outs) == BatchLoop(c, f, <<>>, urls, outs, 1)

Batch(c, f, urls, outs) == BatchLoop(c, <<>>, <<>>, urls, outs, 1)

UrlLists == UNION {[1..n -> URLS] : n \in 0..MaxBatch}

batch_scrape(urls, outs) ==
    /\ LET r == Batch(content, failed_urls, urls, outs) IN
         /\ content' = r.content
         /\ failed_urls' = r.failed_urls
         /\ last' = [op |-> "batch_scrape", urls |-> urls, outcomes |-> outs,
                     ret |-> r.ret, raised |-> FALSE]
    /\ UNCHANGED <<serpapi_key, hf_api_key, search_results, summaries, files>>

(***************************************************************************)
(* summarize_text                                                          *)
(***************************************************************************)
_simple_summarize(text) ==
    LET sentences == sent_tokenize(text) IN
      Join(SubSeq(sentences, 1, Min(NUM_SENTENCES, Len(sentences))), SPACE)

\* text[:5000] when len(text) > 5000
Truncate(text) ==
    IF StrLen(text) > HF_INPUT_LIMIT THEN Take(text, HF_INPUT_LIMIT) ELSE text

\* resp is the provider's answer; no request is made without a key
SummarizeText(key, text, max_length, resp) ==
    IF ~key
    THEN _simple_summarize(text)
    ELSE IF resp = "ok"
         THEN Synopsis(Truncate(text), max_length)
         ELSE _simple_summarize(Truncate(text))

HFModes == IF hf_api_key THEN HFResponses ELSE {"no_request"}

Texts == {TextLong, TextSeven, TextHuge, TextPadded, <<>>}

summarize_text(text, max_length, resp) ==
    /\ last' = [op |-> "summarize_text", text |-> text, max_length |-> max_length,
                resp |-> resp,
                ret |-> SummarizeText(hf_api_key, text, max_length, resp),
                raised |-> FALSE]
    /\ UNCHANGED <<serpapi_key, hf_api_key, search_results, content, summaries,
                   failed_urls, files>>

(***************************************************************************)
(* analyze_and_summarize                                                   *)
(***************************************************************************)
\* f"{data['title']}\n{text}\n\n"
Block(data) == Cat(Cat(Cat(data.title, NEWLINE), data.text), Cat(NEWLINE, NEWLINE))

\* the blocks joined last document first
RECURSIVE AllText_Reversed(_, _)
AllText_Reversed(c, n) ==
    IF n = 0 THEN <<>> ELSE Cat(Block(c[n].v), AllText_Reversed(c, n - 1))

RECURSIVE AllText(_, _)
AllText(c, n) == IF n = 0 THEN <<>> ELSE Cat(AllText(c, n - 1), Block(c[n].v))

RECURSIVE AnalyzeLoop(_, _, _, _, _)
AnalyzeLoop(key, c, sums, resps, i) ==
    IF i > Len(c)
    THEN sums
    ELSE AnalyzeLoop(key, c,
                     DictSet(sums, c[i].k,
                             SummarizeText(key, c[i].v.text, DEFAULT_MAX_LENGTH, resps[i])),
                     resps, i + 1)

\* the overall summary without the test of line 173
Analyze_AlwaysOverall(key, c, sums, resps) ==
    DictSet(AnalyzeLoop(key, c, sums, resps, 1), "overall",
            SummarizeText(key, AllText(c, Len(c)), OVERALL_MAX_LENGTH, resps[Len(c) + 1]))

\* resps[i] answers the i-th request, resps[Len(c) + 1] the overall one
Analyze(key, c, sums, resps) ==
    LET all_text == AllText(c, Len(c))
        per_url == AnalyzeLoop(key, c, sums, resps, 1)
    IN IF all_text # <<>>
       THEN DictSet(per_url, "overall",
                    SummarizeText(key, all_text, OVERALL_MAX_LENGTH, resps[Len(c) + 1]))
       ELSE per_url

analyze_and_summarize(resps) ==
    /\ summaries' = Analyze(hf_api_key, content, summaries, resps)
    /\ last' = [op |-> "analyze_and_summarize", resps |-> resps,
                ret |-> summaries', raised |-> FALSE]
    /\ UNCHANGED <<serpapi_key, hf_api_key, search_results, content, failed_urls, files>>

(***************************************************************************)
(* search_web, suggest_alternative_resources                               *)
(***************************************************************************)
\* the links without the [:num_results]
Links_NoTruncate(results, num_results) == [i \in 1..Len(results) |-> results[i].link]

Links(results, num_results) ==
    LET top == SubSeq(results, 1, Min(num_results, Len(results))) IN
      [i \in 1..Len(top) |-> top[i].link]

\* the search without the key test of line 59
Search_NoKeyCheck(key, cache, num_results, resp) ==
    IF resp.kind = "organic"
    THEN [cache |-> Links(resp.organic_results, num_results),
          ret |-> Links(resp.organic_results, num_results),
          raised |-> FALSE, requested |-> TRUE]
    ELSE [cache |-> cache, ret |-> <<>>, raised |-> FALSE, requested |-> TRUE]

\* the search without the try/except of lines 68-80
Search_Propagates(key, cache, num_results, resp) ==
    IF ~key
    THEN [cache |-> cache, ret |-> None, raised |-> TRUE, requested |-> FALSE]
    ELSE IF resp.kind = "organic"
         THEN [cache |-> Links(resp.organic_results, num_results),
               ret |-> Links(resp.organic_results, num_results),
               raised |-> FALSE, requested |-> TRUE]
         ELSE IF resp.kind = "raise"
              THEN [cache |-> cache, ret |-> None, raised |-> TRUE, requested |-> TRUE]
              ELSE [cache |-> cache, ret |-> <<>>, raised |-> FALSE, requested |-> TRUE]

\* [cache, ret, raised, requested] of one call
Search(key, cache, num_results, resp) ==
    IF ~key
    THEN [cache |-> cache, ret |-> None, raised |-> TRUE, requested |-> FALSE]
    ELSE IF resp.kind = "organic"
         THEN [cache |-> Links(resp.organic_results, num_results),
               ret |-> Links(resp.organic_results, num_results),
               raised |-> FALSE, requested |-> TRUE]
         ELSE [cache |-> cache, ret |-> <<>>, raised |-> FALSE, requested |-> TRUE]

search_web(num_results, resp) ==
    /\ LET r == Search(serpapi_key, search_results, num_results, resp) IN
         /\ search_results' = r.cache
         /\ last' = [op |-> "search_web", num_results |-> num_results, resp |-> resp,
                     ret |-> r.ret, raised |-> r.raised, requested |-> r.requested]
    /\ UNCHANGED <<serpapi_key, hf_api_key, content, summaries, failed_urls, files>>

suggest_alternative_resources(failed_url, resp) ==
    /\ LET r == Search(serpapi_key, search_results, ALT_NUM_RESULTS, resp) IN
         /\ search_results' = r.cache
         /\ last' = [op |-> "suggest_alternative_resources", failed_url |-> failed_url,
                     resp |-> resp,
                     ret |-> IF r.raised THEN <<>> ELSE r.ret,
                     raised |-> FALSE, requested |-> r.requested]
    /\ UNCHANGED <<serpapi_key, hf_api_key, content, summaries, failed_urls, files>>

(***************************************************************************)
(* save_results                                                            *)
(***************************************************************************)
NoFile == [absent |-> TRUE]

\* json.dump: None is written as null, a str as a JSON string
JsonValue(v) == IF v = None THEN [null |-> TRUE] ELSE [string |-> v.str]

\* json.load of the same
PyValue(j) == IF j = [null |-> TRUE] THEN None ELSE PyStr(j.string)

JsonDoc(d) == [d EXCEPT !.publish_date = JsonValue(@)]

PyDoc(j) == [j EXCEPT !.publish_date = PyValue(@)]

\* a dump that leaves the failed list out
JsonDump_NoFailed(sr, c, sums, f) ==
    [search_results |-> sr,
     content |-> [i \in 1..Len(c) |-> [k |-> c[i].k, v |-> JsonDoc(c[i].v)]],
     summaries |-> sums,
     failed_urls |-> <<>>]

JsonDump(sr, c, sums, f) ==
    [search_results |-> sr,
     content |-> [i \in 1..Len(c) |-> [k |-> c[i].k, v |-> JsonDoc(c[i].v)]],
     summaries |-> sums,
     failed_urls |-> f]

JsonLoad(j) ==
    [j EXCEPT !.content = [i \in 1..Len(@) |-> [k |-> @[i].k, v |-> PyDoc(@[i].v)]]]

save_results(filename) ==
    /\ files' = [files EXCEPT
                   ![filename] = JsonDump(search_results, content, summaries, failed_urls)]
    /\ last' = [op |-> "save_results", filename |-> filename, ret |-> filename,
                raised |-> FALSE]
    /\ UNCHANGED <<serpapi_key, hf_api_key, search_results, content, summaries,
                   failed_urls>>

(***************************************************************************)
(* The key setters, construction, and the specification                    *)
(***************************************************************************)
set_serpapi_key(key) ==
    /\ serpapi_key' = key
    /\ last' = [op |-> "set_serpapi_key", raised |-> FALSE]
    /\ UNCHANGED <<hf_api_key, search_results, content, summaries, failed_urls, files>>

set_hf_api_key(key) ==
    /\ hf_api_key' = key
    /\ last' = [op |-> "set_hf_api_key", raised |-> FALSE]
    /\ UNCHANGED <<serpapi_key, search_results, content, summaries, failed_urls, files>>

\* a key is modelled by whether it is a non-empty string
Init ==
    /\ serpapi_key \in BOOLEAN
    /\ hf_api_key \in BOOLEAN
    /\ search_results = <<>>
    /\ content = <<>>
    /\ summaries = <<>>
    /\ failed_urls = <<>>
    /\ files = [f \in FILENAMES |-> NoFile]
    /\ last = [op |-> "__init__", raised |-> FALSE]

\* the provider's answers drawn for the requests of one analyze_and_summarize
AnalyzeModes == IF hf_api_key THEN {"ok", "non200"} ELSE {"no_request"}

Next ==
    \/ \E key \in BOOLEAN : set_serpapi_key(key)
    \/ \E key \in BOOLEAN : set_hf_api_key(key)
    \/ \E n \in 1..MaxCount, resp \in SerpResponses : search_web(n, resp)
    \/ \E u \in URLS, resp \in SerpResponses : suggest_alternative_resources(u, resp)
    \/ \E u \in URLS, o \in EdgeOutcomes : scrape_website(u, o)
    \/ \E urls \in UrlLists : \E outs \in [1..Len(urls) -> Outcomes] :
         batch_scrape(urls, outs)
    \/ \E t \in Texts, m \in {DEFAULT_MAX_LENGTH, OVERALL_MAX_LENGTH}, resp \in HFModes :
         summarize_text(t, m, resp)
    \/ \E resps \in [1..(Len(content) + 1) -> AnalyzeModes] : analyze_and_summarize(resps)
    \/ \E f \in FILENAMES : save_results(f)

Spec == Init /\ [][Next]_vars

(***************************************************************************)
(* The specifications the properties are checked under.  Each takes the    *)
(* operations that write the variables its properties read, with the       *)
(* inputs their cases need; the other operations leave those variables     *)
(* unchanged (see the UNCHANGED of each action).                           *)
(***************************************************************************)

\* what an attempt at a URL yields: one URL serves either of two articles,
\* the other an article or a page with too little text; either can fail
Attempts(u) ==
    IF u = "http://a" THEN {PageLong, PageSeven, ArticleError}
                      ELSE {PageSeven, PagePadded, ArticleError}

\* extraction reads neither key
InitKeyed == Init /\ serpapi_key /\ hf_api_key

\* extraction alone, with the border cases of the length test, and in a batch
NextScrape ==
    \/ \E u \in URLS : \E o \in Attempts(u) \cup {PageShort, PageEmpty} :
         scrape_website(u, o)
    \/ \E urls \in UrlLists :
         \E outs \in {os \in [1..Len(urls) -> Outcomes] :
                        \A i \in 1..Len(urls) : os[i] \in Attempts(urls[i])} :
           batch_scrape(urls, outs)

SpecScrape == InitKeyed /\ [][NextScrape]_vars

\* the page a URL serves when its download and parse succeed
PageAt(u) == IF u = "http://a" THEN PageLong ELSE PageSeven

ServedOutcomes(u) == {PageAt(u), ArticleError}

\* extraction and summarisation, each URL serving its page or failing
NextAnalyze ==
    \/ \E u \in URLS : \E o \in {PageAt(u), PageShort} : scrape_website(u, o)
    \/ \E urls \in UrlLists :
         \E outs \in {os \in [1..Len(urls) -> Outcomes] :
                        \A i \in 1..Len(urls) : os[i] \in ServedOutcomes(urls[i])} :
           batch_scrape(urls, outs)
    \/ \E resps \in [1..(Len(content) + 1) -> AnalyzeModes] : analyze_and_summarize(resps)

\* neither extraction nor summarisation reads the search key
InitSearchKeyed == Init /\ serpapi_key

SpecAnalyze == InitSearchKeyed /\ [][NextAnalyze]_vars

\* the two keys, the search provider, the summarisation provider, and
\* extraction at one URL
NextSearch ==
    \/ \E key \in BOOLEAN : set_serpapi_key(key)
    \/ \E key \in BOOLEAN : set_hf_api_key(key)
    \/ \E n \in 1..MaxCount, resp \in SerpResponses : search_web(n, resp)
    \/ \E resp \in SerpResponses : suggest_alternative_resources("http://a", resp)
    \/ \E o \in ServedOutcomes("http://a") : scrape_website("http://a", o)
    \/ \E urls \in UNION {[1..n -> {"http://a"}] : n \in 0..MaxBatch} :
         \E outs \in [1..Len(urls) -> ServedOutcomes("http://a")] :
           batch_scrape(urls, outs)
    \/ \E t \in Texts, m \in {DEFAULT_MAX_LENGTH, OVERALL_MAX_LENGTH}, resp \in HFModes :
         summarize_text(t, m, resp)

SpecSearch == Init /\ [][NextSearch]_vars

\* search, extraction alone and in a batch, summarisation and the save, at
\* one URL and on one file
NextStore ==
    \/ \E resp \in {r \in SerpResponses : r.kind # "raise"} : search_web(1, resp)
    \/ \E o \in ServedOutcomes("http://a") : scrape_website("http://a", o)
    \/ \E o \in ServedOutcomes("http://a") : batch_scrape(<<"http://a">>, <<o>>)
    \/ \E resps \in [1..(Len(content) + 1) -> AnalyzeModes] : analyze_and_summarize(resps)
    \/ save_results("scraper_results.json")

SpecStore == Init /\ [][NextStore]_vars

(***************************************************************************)
(* Properties                                                              *)
(***************************************************************************)
TrimmedLen(text) == StrLen(Strip(text))

\* an extraction fails: a download or parse error, or a text that is empty
\* or shorter than 50 characters once trimmed
ExtractionFails(o) == o = ArticleError \/ TrimmedLen(o.text) < 50

\* the indices 1..n that are in S, ascending
RECURSIVE Indices(_, _)
Indices(n, S) ==
    IF n = 0 THEN <<>>
    ELSE IF n \in S THEN Append(Indices(n - 1, S), n) ELSE Indices(n - 1, S)

Keys(d) == {d[i].k : i \in 1..Len(d)}

Value(d, key) == d[CHOOSE i \in 1..Len(d) : d[i].k = key].v

\* C1: no URL of the failed-URL list is a key of the content map, also when
\* the URL was extracted successfully earlier and fails later.
C1_FailedExcluded ==
    \A i \in 1..Len(failed_urls) : failed_urls[i] \notin Keys(content)

\* C2: a scrape_website call that fails returns no document, leaves the
\* content map as it was and appends its URL once to the end of the failed
\* list; one that succeeds stores the document under its URL, returns it and
\* leaves the failed list as it was.
C2_ExtractStep ==
    [][last'.op = "scrape_website" =>
         LET u == last'.url
             o == last'.outcome
         IN IF ExtractionFails(o)
            THEN /\ last'.ret = None
                 /\ content' = content
                 /\ failed_urls' = Append(failed_urls, u)
            ELSE /\ last'.ret # None
                 /\ last'.ret.title = o.title
                 /\ last'.ret.text = o.text
                 /\ last'.ret.source_url = u
                 /\ Keys(content') = Keys(content) \cup {u}
                 /\ Value(content', u) = last'.ret
                 /\ \A k \in Keys(content) \ {u} : Value(content', k) = Value(content, k)
                 /\ failed_urls' = failed_urls]_vars

\* C2: every document of the content map has a text of at least 50
\* characters once trimmed, and is stored under its own URL.
C2_StoredLongEnough ==
    \A i \in 1..Len(content) :
        /\ TrimmedLen(content[i].v.text) >= 50
        /\ content[i].v.source_url = content[i].k

\* C2: both of the above
C2_Extract == C2_ExtractStep /\ []C2_StoredLongEnough

\* a failing call on a padded text, with documents of earlier calls in the map
C2_Witness ==
    /\ last.op = "scrape_website"
    /\ last.outcome = PagePadded
    /\ last.ret = None
    /\ content # <<>>
    /\ Len(failed_urls) = 2

\* C3: when batch_scrape returns, the failed list is the subsequence of urls
\* whose extraction failed in this call, the returned list is the subsequence
\* of urls whose extraction succeeded, each with its document, both in input
\* order, and the two lengths add up to len(urls).
C3_Batch ==
    last.op = "batch_scrape" =>
      LET urls == last.urls
          outs == last.outcomes
          bad == Indices(Len(urls), {i \in 1..Len(urls) : ExtractionFails(outs[i])})
          good == Indices(Len(urls), {i \in 1..Len(urls) : ~ExtractionFails(outs[i])})
      IN /\ failed_urls = [j \in 1..Len(bad) |-> urls[bad[j]]]
         /\ last.ret = [j \in 1..Len(good) |->
                          <<urls[good[j]], Doc(urls[good[j]], outs[good[j]])>>]
         /\ Len(last.ret) + Len(failed_urls) = Len(urls)

\* a batch of one failure and one success, run on a map that already holds
\* two documents
C3_Witness ==
    /\ last.op = "batch_scrape"
    /\ Len(last.urls) = 2
    /\ ExtractionFails(last.outcomes[1])
    /\ ~ExtractionFails(last.outcomes[2])
    /\ failed_urls = <<last.urls[1]>>
    /\ Len(content) = 2

\* C4: each cycle overwrites the containers wholesale: when
\* analyze_and_summarize ends a cycle begun by batch_scrape, the content map
\* holds only documents extracted by that batch and the table only their keys
\* and "overall".
C4_Wholesale ==
    [][last.op = "batch_scrape" /\ last'.op = "analyze_and_summarize" =>
         LET got == {last.ret[i][1] : i \in 1..Len(last.ret)} IN
           /\ Keys(content') \subseteq got
           /\ Keys(summaries') \subseteq got \cup {"overall"}]_vars

\* C5: while the content map is empty the table is empty, and
\* analyze_and_summarize on an empty content map returns an empty table.
C5_EmptyTable ==
    /\ content = <<>> => summaries = <<>>
    /\ last.op = "analyze_and_summarize" /\ content = <<>> => last.ret = <<>>

\* analyze_and_summarize on a map left empty by a batch whose URLs all failed
C5_Witness ==
    /\ last.op = "analyze_and_summarize"
    /\ content = <<>>
    /\ Len(failed_urls) = 2
    /\ last.ret = <<>>

\* title, newline, text, two newlines
TitleTextBlock(d) ==
    d.title \o <<<<"\n", 1>>>> \o d.text \o <<<<"\n", 2>>>>

\* normalised: adjacent runs of one character merged
RECURSIVE Merge(_)
Merge(s) ==
    IF Len(s) < 2 THEN s
    ELSE IF s[1][1] = s[2][1]
         THEN Merge(<<<<s[1][1], s[1][2] + s[2][2]>>>> \o SubSeq(s, 3, Len(s)))
         ELSE <<s[1]>> \o Merge(Tail(s))

RECURSIVE Flatten(_)
Flatten(parts) == IF parts = <<>> THEN <<>> ELSE parts[1] \o Flatten(Tail(parts))

\* the answer summarize_text gave to the i-th request of the last
\* analyze_and_summarize, had it been made for text and max_length
Summarized(text, max_length, i) ==
    SummarizeText(hf_api_key, text, max_length, last.resps[i])

\* C6 as stated: "overall" is the summary of the documents' titles and texts
\* joined with nothing between them.
C6_OverallPlain ==
    last.op = "analyze_and_summarize" /\ content # <<>> =>
      Value(summaries, "overall") =
        Summarized(Merge(Flatten([i \in 1..Len(content) |->
                                    content[i].v.title \o content[i].v.text])),
                   1000, Len(content) + 1)

\* C6, amended: when analyze_and_summarize returns with a non-empty content
\* map, the table's keys are the content map's keys and "overall", every URL
\* maps to the summary (max length 500) of its document's text, and "overall"
\* to the summary (max length 1000) of the documents' blocks in insertion
\* order, a block being title, newline, text, two newlines.
C6_Table ==
    last.op = "analyze_and_summarize" /\ content # <<>> =>
      /\ Keys(summaries) = Keys(content) \cup {"overall"}
      /\ \A i \in 1..Len(content) :
           Value(summaries, content[i].k) = Summarized(content[i].v.text, 500, i)
      /\ Value(summaries, "overall") =
           Summarized(Merge(Flatten([i \in 1..Len(content) |->
                                       TitleTextBlock(content[i].v)])),
                      1000, Len(content) + 1)
      /\ last.ret = summaries

\* the end-to-end case: A extracted, B failed, then the table of A and
\* "overall"; and a map of two documents
C6_Witness ==
    /\ last.op = "analyze_and_summarize"
    /\ Keys(content) = {"http://a"}
    /\ failed_urls = <<"http://b">>
    /\ Keys(summaries) = {"http://a", "overall"}

\* C7: search_web without a key raises before any request to the provider
\* and changes none of the four containers; batch_scrape without a key runs
\* as with one.
C7_NoKey ==
    [][/\ last'.op = "search_web" /\ ~serpapi_key =>
            /\ last'.raised
            /\ ~last'.requested
            /\ UNCHANGED <<search_results, content, summaries, failed_urls>>
       /\ last'.op = "batch_scrape" /\ ~serpapi_key =>
            /\ ~last'.raised
            /\ Len(last'.ret) + Len(failed_urls') = Len(last'.urls)]_vars

\* a search refused for want of a key, on an instance whose containers hold
\* the results of earlier calls
C7_Witness ==
    /\ last.op = "search_web"
    /\ last.raised
    /\ search_results # <<>>
    /\ content # <<>>
    /\ failed_urls # <<>>

\* C8: only search_web without a key raises; search_web with a key returns
\* the empty sequence when the provider call raises; batch_scrape attempts
\* every URL, the ones after a failure too; summarize_text with a key returns
\* the extractive summary of the text it submitted when the provider answers
\* with another status, a malformed body or an exception.
C8_OnlyConfigErrors ==
    /\ last.raised => last.op = "search_web" /\ ~serpapi_key
    /\ last.op = "search_web" /\ serpapi_key /\ last.resp.kind = "raise" =>
         last.ret = <<>>
    /\ last.op = "batch_scrape" =>
         /\ Len(last.ret) + Len(failed_urls) = Len(last.urls)
         /\ \A i \in 1..Len(last.urls) :
              IF ExtractionFails(last.outcomes[i])
              THEN \E j \in 1..Len(failed_urls) : failed_urls[j] = last.urls[i]
              ELSE \E j \in 1..Len(last.ret) : last.ret[j][1] = last.urls[i]
    /\ last.op = "summarize_text" /\ last.resp \in {"non200", "malformed", "raise"} =>
         last.ret = _simple_summarize(Truncate(last.text))

\* a provider exception swallowed by search_web
C8_Witness ==
    /\ last.op = "search_web"
    /\ serpapi_key
    /\ last.resp.kind = "raise"
    /\ last.ret = <<>>
    /\ ~last.raised

\* C9: the file written by save_results reloads to the four containers as
\* they are at the save; the save changes none of them; no other operation
\* changes a file.
C9_Snapshot ==
    [][/\ last'.op = "save_results" =>
            /\ JsonLoad(files'[last'.filename]) =
                 [search_results |-> search_results, content |-> content,
                  summaries |-> summaries, failed_urls |-> failed_urls]
            /\ UNCHANGED <<search_results, content, summaries, failed_urls>>
            /\ last'.ret = last'.filename
            /\ \A g \in FILENAMES \ {last'.filename} : files'[g] = files[g]
       /\ last'.op # "save_results" => files' = files]_vars

\* a file that no longer equals the containers, every one of which changed
\* after the save
C9_Witness ==
    LET f == files["scraper_results.json"] IN
      /\ f # NoFile
      /\ last.op # "save_results"
      /\ JsonLoad(f).search_results # search_results
      /\ JsonLoad(f).content # content
      /\ JsonLoad(f).summaries # summaries
      /\ JsonLoad(f).failed_urls # failed_urls
      /\ JsonLoad(f).failed_urls # <<>>

\* C10: search_web with a key returns the links of the first
\* min(num_results, n) organic results in the provider's order, so at most
\* num_results of them, and the empty sequence when the response has no
\* organic results field.
C10_Search ==
    last.op = "search_web" /\ ~last.raised =>
      /\ last.resp.kind = "organic" =>
           LET org == last.resp.organic_results IN
             /\ Len(last.ret) <= last.num_results
             /\ Len(last.ret) = Min(last.num_results, Len(org))
             /\ \A i \in 1..Len(last.ret) : last.ret[i] = org[i].link
      /\ last.resp.kind = "no_organic" => last.ret = <<>>

\* four organic results cut to two
C10_Witness ==
    /\ last.op = "search_web"
    /\ ~last.raised
    /\ last.num_results = 2
    /\ last.resp.kind = "organic"
    /\ Len(last.resp.organic_results) = 4
    /\ last.ret = <<"http://b", "http://a">>

\* C11: every search_web call that returns leaves the cache equal to the
\* sequence it returned, the empty one included.
C11_CacheIsReturn ==
    last.op = "search_web" /\ ~last.raised => search_results = last.ret

\* the first five sentences of a text joined by single spaces
FirstFive(text) ==
    LET sentences == sent_tokenize(text)
        n == IF Len(sentences) < 5 THEN Len(sentences) ELSE 5
    IN Merge(Flatten([i \in 1..(2 * n - 1) |->
                        IF i % 2 = 1 THEN sentences[(i + 1) \div 2] ELSE <<<<" ", 1>>>>]))

\* C12: without a key summarize_text returns the first five sentences of the
\* text joined by single spaces, whatever max_length is; with a key, when the
\* provider answers with another status than 200 or the call raises, it
\* returns what it would return for the same text without a key, texts of
\* more than 5000 characters included.
C12_FallbackSame ==
    last.op = "summarize_text" /\ last.resp \in {"no_request", "non200", "raise"} =>
      last.ret = FirstFive(last.text)

====
